---- MODULE Spec2Model ----
(***************************************************************************)
(* A model of the AI Smart Surveillance System:                            *)
(*   src/src/surveillance_system.py  SmartSurveillance (loops, cooldown)   *)
(*   src/src/motion_analyzer.py      MotionAnalyzer.detect_motion          *)
(*   src/src/intruder_detector.py    IntruderDetector                      *)
(*   src/src/alert_manager.py        AlertManager                          *)
(*                                                                         *)
(* Images.  A frame is a strip of NCells cells; every cell stands for a    *)
(* block of CellArea pixels of one colour (a BGR triple).  The OpenCV      *)
(* calls of the source are modelled at that resolution: cvtColor by the    *)
(* BT.601 weights, GaussianBlur by a 1-2-1 kernel with a reflected border, *)
(* absdiff / threshold / dilate cell by cell, findContours by the maximal  *)
(* runs of set cells and contourArea by the pixels of a run.  Captions     *)
(* (cv2.putText) are thinner than a cell and are not represented.          *)
(*                                                                         *)
(* Time.  datetime.now() is modelled by the logical clock `now`, which     *)
(* ticks once per frame, so that an alert's timestamp is the index of the  *)
(* frame on which it was sent.                                             *)
(***************************************************************************)
EXTENDS Integers, Sequences, FiniteSets

(***************************************************************************)
(* Bounds of the model                                                     *)
(***************************************************************************)
\* cells of a frame
NCells == 5
\* the widest red object the camera of the live loop shows, in cells
MaxObjWidth == 2
\* frames the video source of the live loop delivers before end-of-stream
MaxFrames == 32
\* motion events of one live session
MaxMotion == 1
\* frames of one live session on which no intruder is detected
MaxCalm == 2
\* the random draw of demo_intruder_detection succeeds only while
\* intruders_detected is below this
MaxLucky == 1
\* calls made by the unit drivers of handle_alerts and detect_motion
MaxCalls == 34
\* alerts in one batch handed to handle_alerts by its unit driver
MaxBatch == 2
\* last frame index of the continuous event stream
LastStreamFrame == 40
\* frames handed to a pair of instances by the unit driver of process_frame
MaxPairCalls == 3

(***************************************************************************)
(* Program constants                                                       *)
(***************************************************************************)
CooldownWindow == 30
DemoFrames == 300
IntruderPeriod == 100
IntruderPhase == 50
min_contour_area == 500
DiffThreshold == 25
DilateIterations == 2
RedSumThreshold == 10000
MaskOn == 255
FrameWidth == 640
IntruderX1 == 300
IntruderX2 == 350

\* no frame, no buffer
None == <<>>
\* handle_alerts was not called / was called with a batch
NotCalled == [called |-> FALSE, batch |-> <<>>]
Called(batch) == [called |-> TRUE, batch |-> batch]

VARIABLES
  pc,              \* "init", "live", "demo", "cleanup", "done"; "unit" in the unit drivers
  cap,             \* "unset" (no attribute), "open", "closed", "released"
  is_running,
  alert_cooldown,
  stats,           \* the four counters
  alert_history,   \* AlertManager.alert_history
  previous_frame,  \* MotionAnalyzer.previous_frame
  frame_count,     \* demo_loop's local counter
  frame,           \* the frame handed to process_frame / detect_motion last
  motion_detected, \* what the last detect_motion returned
  alerts,          \* what the last process_frame returned
  handled,         \* the batch handle_alerts got on the last frame, or NotCalled
  alerts2,         \* unit driver of process_frame: what the second instance returned
  random_hit,      \* the last demo_intruder_detection came to its random draw, and the draw succeeded
  contour_areas,   \* unit driver of detect_motion: cv2.contourArea of the contours of its last call
  error,           \* the exception main caught: "none" or "cv2.error"
  drawn,           \* what process_frame has drawn on the frame object it was given last
  now              \* the clock: index of the current frame

vars == <<pc, cap, is_running, alert_cooldown, stats, alert_history, previous_frame,
          frame_count, frame, motion_detected, alerts, handled, alerts2, random_hit, contour_areas, error, drawn, now>>

(***************************************************************************)
(* Frames                                                                  *)
(***************************************************************************)
Cells == 1..NCells

\* the image with the value f[c] in every cell c, as a tuple
RECURSIVE Image(_, _)
Image(f, n) == IF n = 0 THEN <<>> ELSE Append(Image(f, n - 1), f[n])
CellArea == min_contour_area \div 4

\* BGR triples used by the source
Dark == <<30, 30, 30>>
Red == <<0, 0, 255>>

\* np.zeros + cv2.rectangle(frame, (0,0), (width,height), (30,30,30), -1)
create_surveillance_frame == Image([c \in Cells |-> Dark], NCells)

\* cv2.rectangle(img, ..., colour, -1) over the cells a..b
rectangle(img, a, b, colour) ==
  Image([c \in Cells |-> IF a <= c /\ c <= b THEN colour ELSE img[c]], NCells)

\* the cell that holds pixel column x
CellOf(x) == (x * NCells) \div FrameWidth + 1

add_simulated_intruder(img) == rectangle(img, CellOf(IntruderX1), CellOf(IntruderX2), Red)

\* what the camera of the live loop can show: the room, or the room with one red object
Frames ==
  {create_surveillance_frame} \cup
  {rectangle(create_surveillance_frame, p[1], p[2], Red) :
     p \in {q \in Cells \X Cells : q[2] >= q[1] /\ q[2] - q[1] < MaxObjWidth}}

\* frame.shape, as far as cv2.absdiff compares it: the width in cells
Shape(img) == Len(img)

\* frames of another size than the frames of the session: the room, one cell wider
ResizedFrames == {Image([c \in 1..(NCells + 1) |-> Dark], NCells + 1)}

(***************************************************************************)
(* MotionAnalyzer                                                          *)
(***************************************************************************)
\* cv2.cvtColor(frame, cv2.COLOR_BGR2GRAY): 0.114 B + 0.587 G + 0.299 R, rounded
GrayLevel(bgr) == (114 * bgr[1] + 587 * bgr[2] + 299 * bgr[3] + 500) \div 1000

cvtColorGray(img) == Image([c \in Cells |-> GrayLevel(img[c])], NCells)

\* BORDER_REFLECT_101, the default border of GaussianBlur
Reflect(i) == IF i < 1 THEN 2 - i ELSE IF i > NCells THEN 2 * NCells - i ELSE i

GaussianBlur(g) ==
  Image([c \in Cells |-> (g[Reflect(c - 1)] + 2 * g[c] + g[Reflect(c + 1)] + 2) \div 4],
        NCells)

\* lines 24-25: the buffer detect_motion compares and stores
Gray(img) == GaussianBlur(cvtColorGray(img))

absdiff(a, b) ==
  Image([c \in Cells |-> IF a[c] >= b[c] THEN a[c] - b[c] ELSE b[c] - a[c]], NCells)

\* the threshold with cv2.THRESH_BINARY_INV
threshold_inverted(d) ==
  Image([c \in Cells |-> IF d[c] > DiffThreshold THEN 0 ELSE MaskOn], NCells)

\* cv2.threshold(frame_diff, 25, 255, cv2.THRESH_BINARY)[1]
threshold(d) == Image([c \in Cells |-> IF d[c] > DiffThreshold THEN MaskOn ELSE 0], NCells)

\* one pass of the 3-wide structuring element
dilateOnce(m) ==
  Image([c \in Cells |-> IF \E n \in Cells : n >= c - 1 /\ n <= c + 1 /\ m[n] > 0
                         THEN MaskOn ELSE 0], NCells)

RECURSIVE dilate(_, _)
dilate(m, iterations) ==
  IF iterations = 0 THEN m ELSE dilate(dilateOnce(m), iterations - 1)

\* cv2.findContours(..., RETR_EXTERNAL, ...): the maximal runs <<a, b>> of set cells
findContours(m) ==
  {r \in Cells \X Cells :
     /\ r[1] <= r[2]
     /\ \A c \in r[1]..r[2] : m[c] > 0
     /\ (r[1] = 1 \/ m[r[1] - 1] = 0)
     /\ (r[2] = NCells \/ m[r[2] + 1] = 0)}

contourArea(r) == (r[2] - r[1] + 1) * CellArea

\* lines 31-37: the areas of the contours a call finds; none on the first call
ContourAreas(prev, img) ==
  IF prev = None THEN {}
  ELSE {contourArea(contour) :
          contour \in findContours(dilate(threshold(absdiff(prev, Gray(img))),
                                          DilateIterations))}

\* the decision with the comparison of line 41 made inclusive
SignificantMotion_inclusive(prev, gray) ==
  LET thresh == dilate(threshold(absdiff(prev, gray)), DilateIterations)
  IN \E contour \in findContours(thresh) : contourArea(contour) >= min_contour_area

\* lines 31-45: the decision of a call that has a previous frame
SignificantMotion(prev, gray) ==
  LET thresh == dilate(threshold(absdiff(prev, gray)), DilateIterations)
  IN \E contour \in findContours(thresh) : contourArea(contour) > min_contour_area

\* detect_motion without the first-call branch: no buffer counts as a black one
detect_motion_black(prev, img) ==
  LET gray == Gray(img)
      p == IF prev = None THEN Image([c \in Cells |-> 0], NCells) ELSE prev
  IN [raised |-> FALSE, motion_detected |-> SignificantMotion(p, gray),
      previous_frame |-> gray]

\* detect_motion that keeps the old buffer when it finds motion
detect_motion_background(prev, img) ==
  LET gray == Gray(img)
  IN IF prev = None
     THEN [raised |-> FALSE, motion_detected |-> FALSE, previous_frame |-> gray]
     ELSE [raised |-> FALSE, motion_detected |-> SignificantMotion(prev, gray),
           previous_frame |-> IF SignificantMotion(prev, gray) THEN prev ELSE gray]

\* detect_motion that passes a frame of another size by: no motion, buffer kept
detect_motion_skip(prev, img) ==
  LET gray == Gray(img)
  IN IF prev = None
     THEN [raised |-> FALSE, motion_detected |-> FALSE, previous_frame |-> gray]
     ELSE IF Shape(img) # Shape(prev)
     THEN [raised |-> FALSE, motion_detected |-> FALSE, previous_frame |-> prev]
     ELSE [raised |-> FALSE, motion_detected |-> SignificantMotion(prev, gray),
           previous_frame |-> gray]

\* detect_motion(frame) on a MotionAnalyzer whose previous_frame is prev:
\* the returned flag and the new previous_frame; cv2.absdiff (line 32) raises
\* cv2.error when the frame and the buffer differ in size, and the call returns
\* nothing and leaves the buffer as it is
detect_motion(prev, img) ==
  LET gray == Gray(img)
  IN IF prev = None
     THEN [raised |-> FALSE, motion_detected |-> FALSE, previous_frame |-> gray]
     ELSE IF Shape(img) # Shape(prev)
     THEN [raised |-> TRUE, motion_detected |-> FALSE, previous_frame |-> prev]
     ELSE [raised |-> FALSE, motion_detected |-> SignificantMotion(prev, gray),
           previous_frame |-> gray]

(***************************************************************************)
(* IntruderDetector                                                        *)
(***************************************************************************)
\* cv2.inRange on the HSV image with the two red bands: hue 0 of pure red is in the
\* first band, the grey room (saturation 0) is in neither
InRedRange(bgr) == bgr = Red

\* np.sum(mask): every pixel in range contributes 255
MaskSum(img) == Cardinality({c \in DOMAIN img : InRedRange(img[c])}) * CellArea * MaskOn

\* demo_intruder_detection without the colour heuristic: the random draw alone
demo_intruder_detection_draw_only(img, draw) == draw

\* demo_intruder_detection: the colour heuristic, else the 2% random draw
demo_intruder_detection(img, draw) ==
  IF MaskSum(img) > RedSumThreshold THEN TRUE ELSE draw

\* lines 64-69: the call passed the colour heuristic by and its random draw succeeded
RandomHit(img, draw) == MaskSum(img) <= RedSumThreshold /\ draw

\* detect_intruders: the list of intruders, as its length
detect_intruders(img, draw) == IF demo_intruder_detection(img, draw) THEN 1 ELSE 0

\* draw_detections(frame, intruders): cv2.rectangle and cv2.putText on `frame` itself
\* for every intruder; marks is what is drawn on the frame object so far
draw_detections(marks, intruders) ==
  IF intruders > 0 THEN marks \cup {"intruder_box", "intruder_label"} ELSE marks

(***************************************************************************)
(* AlertManager                                                            *)
(***************************************************************************)
get_alert_message(alert_type) ==
  CASE alert_type = "motion_detected" -> "Motion detected in surveillance area"
    [] alert_type = "intruder_detected" -> "INTRUDER DETECTED - Immediate attention required"
    [] alert_type = "system_alert" -> "Surveillance system alert"
    [] OTHER -> "Unknown alert type"

\* send_alert that puts the newest record first
send_alert_newest_first(history, alert_type, t) ==
  <<[type |-> alert_type, timestamp |-> t,
     message |-> get_alert_message(alert_type)]>> \o history

\* send_alert: the history after the call
send_alert(history, alert_type, t) ==
  Append(history, [type |-> alert_type, timestamp |-> t,
                   message |-> get_alert_message(alert_type)])

(***************************************************************************)
(* SmartSurveillance                                                       *)
(***************************************************************************)
\* the controller state handle_alerts reads and writes
Ctl == [cooldown |-> alert_cooldown, history |-> alert_history, sent |-> stats.alerts_sent]

\* lines 195-202: the for loop of handle_alerts
RECURSIVE AlertLoop(_, _, _)
AlertLoop(batch, st, t) ==
  IF batch = <<>> THEN st
  ELSE LET alert == Head(batch)
           st1 == IF st.cooldown <= 0
                  THEN [cooldown |-> CooldownWindow,
                        history |-> send_alert(st.history, alert, t),
                        sent |-> st.sent + 1]
                  ELSE st
       IN AlertLoop(Tail(batch), st1, t)

\* handle_alerts with the decrement indented into the for loop
RECURSIVE AlertLoopTick(_, _, _)
AlertLoopTick(batch, st, t) ==
  IF batch = <<>> THEN st
  ELSE LET alert == Head(batch)
           st1 == IF st.cooldown <= 0
                  THEN [cooldown |-> CooldownWindow,
                        history |-> send_alert(st.history, alert, t),
                        sent |-> st.sent + 1]
                  ELSE st
           st2 == IF st1.cooldown > 0 THEN [st1 EXCEPT !.cooldown = @ - 1] ELSE st1
       IN AlertLoopTick(Tail(batch), st2, t)

handle_alerts_indented(batch, st, t) == AlertLoopTick(batch, st, t)

\* handle_alerts that never arms the cooldown
RECURSIVE AlertLoopUnarmed(_, _, _)
AlertLoopUnarmed(batch, st, t) ==
  IF batch = <<>> THEN st
  ELSE LET alert == Head(batch)
           st1 == IF st.cooldown <= 0
                  THEN [cooldown |-> st.cooldown,
                        history |-> send_alert(st.history, alert, t),
                        sent |-> st.sent + 1]
                  ELSE st
       IN AlertLoopUnarmed(Tail(batch), st1, t)

handle_alerts_unarmed(batch, st, t) ==
  LET st1 == AlertLoopUnarmed(batch, st, t)
  IN IF st1.cooldown > 0 THEN [st1 EXCEPT !.cooldown = @ - 1] ELSE st1

\* handle_alerts that counts every alert of the batch, sent or suppressed
handle_alerts_counts_all(batch, st, t) ==
  LET st1 == AlertLoop(batch, st, t)
      st2 == [st1 EXCEPT !.sent = st.sent + Len(batch)]
  IN IF st2.cooldown > 0 THEN [st2 EXCEPT !.cooldown = @ - 1] ELSE st2

\* handle_alerts that decrements the cooldown unconditionally
handle_alerts_no_floor(batch, st, t) ==
  LET st1 == AlertLoop(batch, st, t)
  IN [st1 EXCEPT !.cooldown = @ - 1]

\* handle_alerts(alerts, frame) at time t: the loop, then the decrement of lines 204-205
handle_alerts(batch, st, t) ==
  LET st1 == AlertLoop(batch, st, t)
  IN IF st1.cooldown > 0 THEN [st1 EXCEPT !.cooldown = @ - 1] ELSE st1

\* overlay_info(frame, ...): the banner of line 184 and the captions, on `frame` itself
overlay_info(marks) == marks \cup {"status_banner", "status_text", "stats_text"}

\* process_frame(frame): the alerts it returns and what it leaves behind, on the
\* frame object too (detect_motion draws on its own frame.copy(), detect_intruders
\* and overlay_info on the frame they are given); an exception of detect_motion
\* passes through it
process_frame(prev, st, img, draw) ==
  LET m == detect_motion(prev, img)
      intruders == detect_intruders(img, draw)
      a1 == IF m.motion_detected THEN <<"motion_detected">> ELSE <<>>
      a2 == IF intruders > 0 THEN Append(a1, "intruder_detected") ELSE a1
  IN IF m.raised
     THEN [raised |-> TRUE, alerts |-> <<>>, motion_detected |-> FALSE,
           previous_frame |-> prev, stats |-> st, drawn |-> {}]
     ELSE [raised |-> FALSE,
           alerts |-> a2,
           drawn |-> overlay_info(draw_detections({}, intruders)),
           motion_detected |-> m.motion_detected,
           previous_frame |-> m.previous_frame,
           stats |-> [st EXCEPT
                        !.motion_events = IF m.motion_detected THEN @ + 1 ELSE @,
                        !.intruders_detected = IF intruders > 0 THEN @ + 1 ELSE @]]

\* __init__ of the three components and of SmartSurveillance
Constructed ==
  /\ cap = "unset"
  /\ is_running = FALSE
  /\ alert_cooldown = 0
  /\ stats = [frames_processed |-> 0, intruders_detected |-> 0,
              motion_events |-> 0, alerts_sent |-> 0]
  /\ alert_history = <<>>
  /\ previous_frame = None
  /\ frame_count = 0
  /\ frame = None
  /\ motion_detected = FALSE
  /\ alerts = <<>>
  /\ handled = NotCalled
  /\ alerts2 = <<>>
  /\ random_hit = FALSE
  /\ contour_areas = {}
  /\ error = "none"
  /\ drawn = {}
  /\ now = 0

Init == pc = "init" /\ Constructed

\* start_surveillance: the capture opens, or start_demo_mode
start_surveillance ==
  /\ pc = "init"
  /\ \E opened \in BOOLEAN :
       /\ cap' = IF opened THEN "open" ELSE "closed"
       /\ pc' = IF opened THEN "live" ELSE "demo"
  /\ is_running' = TRUE
  /\ UNCHANGED <<alert_cooldown, stats, alert_history, previous_frame, frame_count,
                 frame, motion_detected, alerts, handled, now,
                 alerts2, random_hit, contour_areas, error,
                 drawn>>

\* the outcomes of random.random() < 0.02 the model lets happen
Draws == IF stats.intruders_detected < MaxLucky THEN BOOLEAN ELSE {FALSE}

\* lines 67-75: process_frame, then handle_alerts if it returned alerts (it
\* returns none when it raises)
LiveStep(prev, st, ctl, img, draw, t) ==
  LET r == process_frame(prev, st, img, draw)
      c == IF r.alerts # <<>>
           THEN handle_alerts(r.alerts, ctl, t)
           ELSE ctl
  IN [r |-> r, c |-> c, handled |-> IF r.alerts # <<>> THEN Called(r.alerts) ELSE NotCalled]

\* what cap.read() can return: the first frame sets the size of the session, a
\* later frame can have another size
CameraFrames == IF previous_frame = None THEN Frames ELSE Frames \cup ResizedFrames

\* one pass of the while loop of surveillance_loop on a frame the capture returned.
\* An exception of process_frame leaves the loop and start_surveillance; main
\* catches it (lines 234-236) and calls cleanup.
surveillance_loop ==
  /\ pc = "live"
  /\ is_running
  /\ stats.frames_processed < MaxFrames
  /\ \E img \in CameraFrames, draw \in Draws :
       \E s \in {LiveStep(previous_frame, stats, Ctl, img, draw, now)} :
         IF s.r.raised
         THEN /\ frame' = img
              /\ error' = "cv2.error"
              /\ pc' = "cleanup"
              /\ drawn' = s.r.drawn
              /\ UNCHANGED <<cap, is_running, alert_cooldown, stats, alert_history,
                             previous_frame, frame_count, motion_detected, alerts,
                             handled, alerts2, random_hit, contour_areas, now>>
         ELSE
         /\ s.r.stats.motion_events <= MaxMotion
         /\ stats.frames_processed + 1 - s.r.stats.intruders_detected <= MaxCalm
         /\ frame' = img
         /\ motion_detected' = s.r.motion_detected
         /\ previous_frame' = s.r.previous_frame
         /\ alerts' = s.r.alerts
         /\ handled' = s.handled
         /\ alert_cooldown' = s.c.cooldown
         /\ alert_history' = s.c.history
         /\ stats' = [s.r.stats EXCEPT !.alerts_sent = s.c.sent, !.frames_processed = @ + 1]
         /\ now' = now + 1
         /\ \E quit \in BOOLEAN : pc' = IF quit THEN "cleanup" ELSE "live"
         /\ random_hit' = RandomHit(img, draw)
         /\ drawn' = s.r.drawn
         /\ UNCHANGED <<cap, is_running, frame_count, alerts2, contour_areas, error>>

\* cap.read() returns ret = False: break
end_of_stream ==
  /\ pc = "live"
  /\ pc' = "cleanup"
  /\ UNCHANGED <<cap, is_running, alert_cooldown, stats, alert_history, previous_frame,
                 frame_count, frame, motion_detected, alerts, handled, now,
                 alerts2, random_hit, contour_areas, error,
                 drawn>>

\* lines 92-102: the frame, the simulated intruder and its alert, then process_frame
DemoStep(prev, st, ctl, count, draw, t) ==
  LET inject == count % IntruderPeriod = IntruderPhase
      img == IF inject THEN add_simulated_intruder(create_surveillance_frame)
             ELSE create_surveillance_frame
      c == IF inject THEN handle_alerts(<<"intruder_detected">>, ctl, t) ELSE ctl
      r == process_frame(prev, [st EXCEPT !.alerts_sent = c.sent], img, draw)
  IN [r |-> r, c |-> c, frame |-> img,
      handled |-> IF inject THEN Called(<<"intruder_detected">>) ELSE NotCalled]

\* one pass of the while loop of demo_loop
demo_loop ==
  /\ pc = "demo"
  /\ is_running /\ frame_count < DemoFrames
  /\ \E draw \in Draws :
       \E s \in {DemoStep(previous_frame, stats, Ctl, frame_count, draw, now)} :
         /\ frame' = s.frame
         /\ handled' = s.handled
         /\ alert_cooldown' = s.c.cooldown
         /\ alert_history' = s.c.history
         /\ motion_detected' = s.r.motion_detected
         /\ previous_frame' = s.r.previous_frame
         /\ alerts' = s.r.alerts
         /\ frame_count' = frame_count + 1
         /\ stats' = [s.r.stats EXCEPT !.frames_processed = @ + 1]
         /\ now' = now + 1
         /\ \E quit \in BOOLEAN : pc' = IF quit THEN "cleanup" ELSE "demo"
         /\ random_hit' = RandomHit(s.frame, draw)
         /\ drawn' = s.r.drawn
         /\ UNCHANGED <<cap, is_running, alerts2, contour_areas, error>>

\* the while condition of demo_loop fails
demo_end ==
  /\ pc = "demo"
  /\ ~(is_running /\ frame_count < DemoFrames)
  /\ pc' = "cleanup"
  /\ UNCHANGED <<cap, is_running, alert_cooldown, stats, alert_history, previous_frame,
                 frame_count, frame, motion_detected, alerts, handled, now,
                 alerts2, random_hit, contour_areas, error,
                 drawn>>

\* cleanup that clears the statistics after printing them
cleanup_reset ==
  /\ pc = "cleanup"
  /\ is_running' = FALSE
  /\ cap' = IF cap = "unset" THEN cap ELSE "released"
  /\ stats' = [frames_processed |-> 0, intruders_detected |-> 0,
               motion_events |-> 0, alerts_sent |-> 0]
  /\ pc' = "done"
  /\ UNCHANGED <<alert_cooldown, alert_history, previous_frame, frame_count,
                 frame, motion_detected, alerts, handled, now,
                 alerts2, random_hit, contour_areas, error,
                 drawn>>

\* cleanup that leaves is_running as it is
cleanup_keeps_running ==
  /\ pc = "cleanup"
  /\ is_running' = is_running
  /\ cap' = IF cap = "unset" THEN cap ELSE "released"
  /\ pc' = "done"
  /\ UNCHANGED <<alert_cooldown, stats, alert_history, previous_frame, frame_count,
                 frame, motion_detected, alerts, handled, now,
                 alerts2, random_hit, contour_areas, error,
                 drawn>>

cleanup ==
  /\ pc = "cleanup"
  /\ is_running' = FALSE
  /\ cap' = IF cap = "unset" THEN cap ELSE "released"
  /\ pc' = "done"
  /\ UNCHANGED <<alert_cooldown, stats, alert_history, previous_frame, frame_count,
                 frame, motion_detected, alerts, handled, now,
                 alerts2, random_hit, contour_areas, error,
                 drawn>>

Next ==
  \/ start_surveillance
  \/ surveillance_loop
  \/ end_of_stream
  \/ demo_loop
  \/ demo_end
  \/ cleanup

Spec == Init /\ [][Next]_vars

\* surveillance.start_demo_mode() called on the constructed system (lines 53-57)
start_demo_mode ==
  /\ pc = "init"
  /\ is_running' = TRUE
  /\ pc' = "demo"
  /\ UNCHANGED <<cap, alert_cooldown, stats, alert_history, previous_frame, frame_count,
                 frame, motion_detected, alerts, handled, alerts2, random_hit,
                 contour_areas, error, drawn, now>>

NextDemo ==
  \/ start_demo_mode
  \/ demo_loop
  \/ demo_end
  \/ cleanup

\* a pass of the while loop of demo_loop, as far as scheduling goes: it is enabled
\* when the while condition of line 91 holds, and it counts the frame (line 105)
demo_pass ==
  /\ pc = "demo"
  /\ is_running /\ frame_count < DemoFrames
  /\ frame_count' = frame_count + 1

\* the demo session of a running program: one thread, whose next statement is
\* always executed (cv2.waitKey(30) returns after 30 ms at the latest)
SpecDemo ==
  /\ Init /\ [][NextDemo]_vars
  /\ WF_vars(start_demo_mode)
  /\ WF_frame_count(demo_pass)
  /\ WF_vars(demo_end)
  /\ WF_vars(cleanup)

(***************************************************************************)
(* Unit drivers: handle_alerts and detect_motion called directly, one call *)
(* per frame, on a freshly constructed system                              *)
(***************************************************************************)
Kinds == {"motion_detected", "intruder_detected"}

Batches == UNION {[1..n -> Kinds] : n \in 0..MaxBatch}

InitUnit == pc = "unit" /\ Constructed

\* surveillance.handle_alerts(batch, frame)
call_handle_alerts(batch) ==
  /\ pc = "unit"
  /\ \E c \in {handle_alerts(batch, Ctl, now)} :
       /\ alert_cooldown' = c.cooldown
       /\ alert_history' = c.history
       /\ stats' = [stats EXCEPT !.alerts_sent = c.sent]
  /\ handled' = Called(batch)
  /\ now' = now + 1
  /\ UNCHANGED <<pc, cap, is_running, previous_frame, frame_count, frame,
                 motion_detected, alerts, alerts2, random_hit,
                 contour_areas, error, drawn>>

\* any batch, empty ones included, on every frame
any_batch == now < MaxCalls /\ \E batch \in Batches : call_handle_alerts(batch)

NextCtl == any_batch

SpecCtl == InitUnit /\ [][NextCtl]_vars

\* a batch with at least one event on every frame 0 .. LastStreamFrame
event_stream ==
  now <= LastStreamFrame /\ \E batch \in Batches \ {<<>>} : call_handle_alerts(batch)

NextStream == event_stream

SpecStream == InitUnit /\ [][NextStream]_vars

\* motion_analyzer.detect_motion(img), with the areas of the contours it finds
call_detect_motion(img) ==
  /\ pc = "unit"
  /\ \E m \in {detect_motion(previous_frame, img)} :
       /\ motion_detected' = m.motion_detected
       /\ previous_frame' = m.previous_frame
  /\ contour_areas' = ContourAreas(previous_frame, img)
  /\ frame' = img
  /\ now' = now + 1
  /\ UNCHANGED <<pc, cap, is_running, alert_cooldown, stats, alert_history, frame_count,
                 alerts, handled, alerts2, random_hit, error,
                 drawn>>

any_frame == now < MaxCalls /\ \E img \in Frames : call_detect_motion(img)

NextMotion == any_frame

SpecMotion == InitUnit /\ [][NextMotion]_vars

\* process_frame(img) on two instances in the same state: the instance of the model
\* and a copy of it, each with its own outcome of random.random() < 0.02
call_process_frame_pair(img, draw, draw2) ==
  /\ pc = "unit"
  /\ \E r \in {process_frame(previous_frame, stats, img, draw)} :
       /\ alerts' = r.alerts
       /\ motion_detected' = r.motion_detected
       /\ previous_frame' = r.previous_frame
       /\ stats' = r.stats
       /\ drawn' = r.drawn
  /\ alerts2' = process_frame(previous_frame, stats, img, draw2).alerts
  /\ random_hit' = RandomHit(img, draw)
  /\ frame' = img
  /\ now' = now + 1
  /\ UNCHANGED <<pc, cap, is_running, alert_cooldown, alert_history, frame_count, handled,
                 contour_areas, error>>

any_frame_pair ==
  now < MaxPairCalls /\ \E img \in Frames, draw, draw2 \in BOOLEAN :
                          call_process_frame_pair(img, draw, draw2)

NextPair == any_frame_pair

SpecPair == InitUnit /\ [][NextPair]_vars

(***************************************************************************)
(* Helpers of the properties                                               *)
(***************************************************************************)
KindsOf(batch) == {batch[i] : i \in DOMAIN batch}

\* the history entries of one kind, as positions
EntriesOf(kind) == {i \in DOMAIN alert_history : alert_history[i].type = kind}

\* the pixels of a frame that are in the red range
RedPixels(img) == Cardinality({c \in Cells : InRedRange(img[c])}) * CellArea

\* a frame was processed by one of the two loops in this step
FrameProcessed == stats'.frames_processed = stats.frames_processed + 1

(***************************************************************************)
(* Properties                                                              *)
(***************************************************************************)

\* C1: a call of handle_alerts made while Ready (alert_cooldown <= 0) with a batch
\* of k >= 1 distinct kinds sends exactly k alerts: one new history entry per
\* distinct kind, each counted in alerts_sent, and the cooldown window is started.
C1_OnePerKind ==
  [][(alert_cooldown <= 0 /\ handled'.called /\ handled'.batch # <<>> /\ now' = now + 1) =>
       LET k == Cardinality(KindsOf(handled'.batch))
           new == SubSeq(alert_history', Len(alert_history) + 1, Len(alert_history'))
       IN /\ Len(alert_history') = Len(alert_history) + k
          /\ SubSeq(alert_history', 1, Len(alert_history)) = alert_history
          /\ \A kind \in KindsOf(handled'.batch) :
               Cardinality({i \in DOMAIN new : new[i].type = kind}) = 1
          /\ stats'.alerts_sent = stats.alerts_sent + k
          /\ alert_cooldown' \in {CooldownWindow, CooldownWindow - 1}]_vars

\* C2: every frame processed by a frame loop decrements a positive cooldown by one,
\* quiet frames included.
C2_TickEveryFrame ==
  [][(FrameProcessed /\ alert_cooldown > 0) => alert_cooldown' = alert_cooldown - 1]_vars

\* C3: with a non-empty batch on every frame 0..40, alerts are sent on frames 0 and
\* 30 only, and every kind present in the batch of frame 0 or 30 is sent on it.
C3_BurstsAt0And30 ==
  /\ \A i \in DOMAIN alert_history : alert_history[i].timestamp \in {0, CooldownWindow}
  /\ (handled.called /\ now - 1 \in {0, CooldownWindow}) =>
       \A kind \in KindsOf(handled.batch) :
         \E i \in EntriesOf(kind) : alert_history[i].timestamp = now - 1

\* C4: a demo session that ran its 300 frames has recorded at least 3
\* 'intruder_detected' alerts, any two of them at least 30 frames apart.
C4_DemoThreeAlerts ==
  (pc \in {"cleanup", "done"} /\ frame_count = DemoFrames) =>
     /\ Cardinality(EntriesOf("intruder_detected")) >= 3
     /\ \A i, j \in EntriesOf("intruder_detected") :
          i < j => alert_history[j].timestamp - alert_history[i].timestamp >= CooldownWindow

\* C5: a call of handle_alerts made while Suppressed (alert_cooldown > 0) sends
\* nothing, whatever the batch, and lowers alert_cooldown by exactly 1, not below 0.
C5_SuppressedSilent ==
  [][(alert_cooldown > 0 /\ handled'.called /\ now' = now + 1) =>
       /\ alert_history' = alert_history
       /\ stats'.alerts_sent = stats.alerts_sent
       /\ alert_cooldown' = alert_cooldown - 1
       /\ alert_cooldown' >= 0]_vars

\* a suppressed call with events has returned: one alert in the history, sent by an
\* earlier call, and the cooldown two below the window
C5_Witness ==
  /\ pc = "unit"
  /\ handled.called /\ handled.batch # <<>>
  /\ Len(alert_history) = 1
  /\ alert_history[1].timestamp < now - 1
  /\ alert_cooldown = CooldownWindow - 2

\* C6: in any run of the live or the demo loop, two alerts sent on different frames
\* are sent at least 30 frames apart.
C6_ThirtyApart ==
  \A i, j \in DOMAIN alert_history :
     alert_history[i].timestamp < alert_history[j].timestamp =>
       alert_history[j].timestamp - alert_history[i].timestamp >= CooldownWindow

\* a loop has sent alerts on two different frames
C6_Witness ==
  /\ pc \in {"live", "demo"}
  /\ \E i, j \in DOMAIN alert_history :
       alert_history[i].timestamp < alert_history[j].timestamp

\* C7: a non-empty list returned by process_frame is handed to handle_alerts on that
\* frame, in both loops, and is recorded in the history if the controller was Ready.
C7_Forwarded ==
  [][(FrameProcessed /\ alerts' # <<>>) =>
       /\ handled' = Called(alerts')
       /\ alert_cooldown <= 0 => Len(alert_history') > Len(alert_history)]_vars

\* C8: no step lowers or resets any of the four counters.
C8_CountersMonotonic ==
  [][/\ stats'.frames_processed >= stats.frames_processed
     /\ stats'.motion_events >= stats.motion_events
     /\ stats'.intruders_detected >= stats.intruders_detected
     /\ stats'.alerts_sent >= stats.alerts_sent]_vars

\* cleanup has run on a session in which all four counters moved
C8_Witness ==
  /\ pc = "done"
  /\ stats.frames_processed > 0
  /\ stats.motion_events > 0
  /\ stats.intruders_detected > 0
  /\ stats.alerts_sent > 0

\* C9: the first detect_motion call (no previous frame) reports no motion for any
\* frame and stores the frame's blurred grayscale.
C9_FirstCallNoMotion ==
  [][(previous_frame = None /\ now' = now + 1) =>
       /\ motion_detected' = FALSE
       /\ previous_frame' = Gray(frame')]_vars

\* the first call has returned, on a frame that shows a red object
C9_Witness ==
  /\ pc = "unit"
  /\ now = 1
  /\ frame # create_surveillance_frame
  /\ previous_frame = Gray(frame)
  /\ ~motion_detected

\* C10: every detect_motion call leaves the blurred grayscale of its own frame in
\* previous_frame, with or without motion, so that the next call decides on the
\* difference to the immediately preceding frame.
C10_BufferIsLastFrame ==
  [][now' = now + 1 =>
       /\ previous_frame' = Gray(frame')
       /\ now > 0 => motion_detected' = SignificantMotion(Gray(frame), Gray(frame'))]_vars

\* a call that found motion has returned, and a later call followed it
C10_Witness ==
  /\ pc = "unit"
  /\ now >= 3
  /\ motion_detected
  /\ previous_frame = Gray(frame)

\* C11: process_frame is deterministic in its inputs: two instances in the same
\* starting state that are given the same frame return the same list of events.
C11_Deterministic == alerts = alerts2

\* C11, amended: the two lists agree on 'motion_detected', and they are the same
\* list whenever the colour heuristic fires on the frame; they can differ only in
\* 'intruder_detected', which the random draw of each instance decides otherwise.
C11_SameUpToDraw ==
  /\ ("motion_detected" \in KindsOf(alerts)) = ("motion_detected" \in KindsOf(alerts2))
  /\ (frame # None /\ MaskSum(frame) > RedSumThreshold) => alerts = alerts2
  /\ alerts # alerts2 =>
       KindsOf(alerts) \ {"intruder_detected"} = KindsOf(alerts2) \ {"intruder_detected"}

\* two instances processed a frame with a red object after a frame without one, and
\* both returned the motion and the intruder event
C11_Witness ==
  /\ pc = "unit"
  /\ now >= 2
  /\ MaskSum(frame) > RedSumThreshold
  /\ alerts = <<"motion_detected", "intruder_detected">>
  /\ alerts2 = alerts

\* C12: the colour heuristic fires exactly when more than 10000 pixels of the frame
\* are in the red range: on a frame with at most 10000 such pixels an intruder is
\* reported only if the random draw succeeds.
C12_FiresIffCount ==
  frame # None =>
    (("intruder_detected" \in KindsOf(alerts) /\ ~random_hit)
       <=> RedPixels(frame) > RedSumThreshold)

\* C13: detect_motion reports motion exactly when at least one contour has an area
\* strictly greater than min_contour_area; a contour of exactly that area is left out.
C13_StrictlyGreater ==
  motion_detected <=> \E area \in contour_areas : area > min_contour_area

\* a call has found a contour of exactly min_contour_area, and nothing larger, and
\* returned no motion
C13_Witness ==
  /\ pc = "unit"
  /\ min_contour_area \in contour_areas
  /\ \A area \in contour_areas : area <= min_contour_area
  /\ ~motion_detected

\* C14: a frame identical to the frame of the immediately preceding call yields no
\* motion: detect_motion returns False, process_frame adds no 'motion_detected' and
\* leaves motion_events as it is.
C14_SameFrameNoMotion ==
  [][(FrameProcessed /\ frame' = frame) =>
       /\ ~motion_detected'
       /\ "motion_detected" \notin KindsOf(alerts')
       /\ stats'.motion_events = stats.motion_events]_vars

\* the demo loop has processed its frames 0 and 1, both the empty room
C14_Witness ==
  /\ pc = "demo"
  /\ frame_count = 2
  /\ frame = create_surveillance_frame
  /\ ~motion_detected
  /\ stats.motion_events = 0

\* C15: a frame whose size differs from the size of the frames seen before makes
\* detect_motion fail instead of returning a decision; the failure is not retried
\* and ends the session: the frame is not counted, nothing is decided or sent on
\* it, and no later frame is processed.
C15_MismatchIsFatal ==
  [][/\ (previous_frame # None /\ frame' # frame /\ Shape(frame') # Shape(previous_frame)) =>
          /\ error' = "cv2.error"
          /\ pc' = "cleanup"
          /\ motion_detected' = motion_detected
          /\ alerts' = alerts
          /\ stats' = stats
          /\ previous_frame' = previous_frame
          /\ alert_history' = alert_history
     /\ error # "none" =>
          /\ pc' \in {"cleanup", "done"}
          /\ frame' = frame
          /\ stats' = stats
          /\ previous_frame' = previous_frame
          /\ error' = error]_vars

\* a live session has ended on a frame of another size, after frames it processed
C15_Witness ==
  /\ pc = "done"
  /\ error = "cv2.error"
  /\ stats.frames_processed >= 2
  /\ Shape(frame) # Shape(previous_frame)
  /\ ~is_running

\* C16: process_frame does not modify the frame it is given: whatever it draws, it
\* draws on a clone, so the frame the loop hands on to handle_alerts and send_alert
\* afterwards is still the raw frame of the frame source.
C16_FrameUntouched == drawn = {}

\* C17: alert_history is append-only: every step keeps the records it holds, in
\* their order and unchanged, and each send_alert adds one record
\* {type, timestamp, message} at the end.
C17_AppendOnly ==
  [][/\ Len(alert_history') >= Len(alert_history)
     /\ SubSeq(alert_history', 1, Len(alert_history)) = alert_history
     /\ Len(alert_history') - Len(alert_history) = stats'.alerts_sent - stats.alerts_sent
     /\ \A i \in (Len(alert_history) + 1)..Len(alert_history') :
          /\ DOMAIN alert_history'[i] = {"type", "timestamp", "message"}
          /\ alert_history'[i].type \in Kinds
          /\ alert_history'[i].timestamp = now
          /\ alert_history'[i].message = get_alert_message(alert_history'[i].type)]_vars

\* a session has sent a second alert after the first and has been cleaned up
C17_Witness ==
  /\ pc = "done"
  /\ Len(alert_history) >= 2
  /\ alert_history[1].timestamp < alert_history[2].timestamp

\* C18: alerts_sent is the number of records in alert_history, in every reachable
\* state.
C18_SentIsHistoryLength == stats.alerts_sent = Len(alert_history)

\* a loop has sent two alerts and suppressed one since
C18_Witness ==
  /\ pc \in {"live", "demo"}
  /\ Len(alert_history) = 2
  /\ handled.called
  /\ alert_history[2].timestamp < now - 1

\* C19: alert_cooldown is 0 after construction, never negative and never above 30;
\* 30 is held only inside handle_alerts, between the send and the decrement, and
\* whenever handle_alerts has returned alert_cooldown is within 0..29.
C19_CooldownRange ==
  /\ now = 0 => alert_cooldown = 0
  /\ alert_cooldown \in 0..(CooldownWindow - 1)
  /\ \A batch \in Batches : AlertLoop(batch, Ctl, now).cooldown \in 0..CooldownWindow

\* a window has been started and has run down to 0 again
C19_Witness ==
  /\ pc = "unit"
  /\ handled.called
  /\ Len(alert_history) = 1
  /\ alert_cooldown = 0

\* C20: demo mode always terminates: demo_loop processes at most 300 frames (fewer
\* on quit), then cleanup runs, and after it is_running is False and
\* frames_processed is at most 300.
C20_DemoTerminates ==
  <>(pc = "done" /\ ~is_running /\ stats.frames_processed <= DemoFrames)

\* a demo session has run all of its 300 frames and has been cleaned up
C20_Witness ==
  /\ pc = "done"
  /\ frame_count = DemoFrames
  /\ stats.frames_processed = DemoFrames
  /\ ~is_running

====
